---- MODULE Spec2Model ----
(***************************************************************************)
(* A model of the NoiseGo connection API (readable/apis.go):               *)
(*   - checkRequirements, Listen, listener.Accept and DialWithDialer       *)
(*     (config validation, the dial timer, the handshake goroutine and     *)
(*     errChannel);                                                        *)
(*   - the authentication helpers (static public key proofs);              *)
(*   - the storage of root keys and static key pairs as hexadecimal files; *)
(*   - the half-duplex record layer described by the specification.        *)
(***************************************************************************)
EXTENDS Integers, Sequences, FiniteSets, TLC

VARIABLES
    op,          \* what is being executed: "Listen", "Dial",
                 \* "checkRequirements", "auth", "keys" or "conn"
    config,      \* the *Config argument: NilConfig or a Config record
    dialer,      \* the *net.Dialer argument: [Timeout, Deadline]
    pc,          \* the caller's position inside the call
    isClient,    \* the isClient argument of the last checkRequirements call
    reqErr,      \* the error returned by the last checkRequirements call
    timeout,     \* DialWithDialer's local variable timeout
    timer,       \* the time.AfterFunc timer: "none", "armed", "fired"
    errChannel,  \* the values buffered in errChannel (made with the timer)
    listenSock,  \* the socket of net.Listen: "none", "open"
    netCalled,   \* whether net.Listen / dialer.Dial has been called
    rawConn,     \* the connection of dialer.Dial: "none", "open", "closed"
    goroutine,   \* the handshake goroutine: "none","running","returned","exited"
    hsErr,       \* the value returned by conn.Handshake()
    err,         \* DialWithDialer's local variable err
    ret,         \* what the call returned: [val, err]
    timedOutEarly, \* history: the timer callback ran while DialWithDialer was
                  \* still executing and conn.Handshake() had not returned
    listenerConfig, \* the field config of the listener made by Listen
    conn,        \* the Conn made by Client or Server: NoConn or
                 \* [nil, conn, config, isClient]
    handshake,   \* conn.Handshake() on that Conn: "none" (not called),
                 \* "running", "ok" (returned nil), "failed"
    acceptRet,   \* what the last call of listener.Accept returned: [val, err]
    fs,          \* the file system: file name -> [exists, data, mode]
    saved,       \* history: file name -> the keys whose encoding the file holds
    proof,       \* the last proof made by CreateStaticPublicKeyProof
    last,        \* the last call of a key helper: its arguments and results
    halfDuplex,  \* Config.HalfDuplex of the two peers of a connection
    maySend,     \* peer -> the half-duplex flag may_send
    stream,      \* peer -> the records (plaintext lengths) sent to that peer
                 \* and not yet read by it
    leftover,    \* peer -> length of the plaintext left in its read buffer
    writes,      \* number of Write calls made so far on the connection
    history,     \* [multi, partial]: whether some write took several
                 \* records, and whether some read left plaintext behind
    lastIO       \* the last Read or Write call on the connection

apiVars == <<op, config, dialer, pc, isClient, reqErr, timeout, timer,
             errChannel, listenSock, netCalled, rawConn, goroutine, hsErr,
             err, ret, timedOutEarly, listenerConfig, conn, handshake,
             acceptRet>>

keyVars == <<fs, saved, proof, last>>

connVars == <<halfDuplex, maySend, stream, leftover, writes, history, lastIO>>

nonApiVars == <<keyVars, connVars>>

nonKeyVars == <<apiVars, connVars>>

nonConnVars == <<apiVars, keyVars>>

vars == <<apiVars, keyVars, connVars>>

----------------------------------------------------------------------------
(* Bounds of the model *)

\* dialer.Timeout ranges over 0..MaxTimeout time units
MaxTimeout == 2

\* at most MaxWrites calls of Write are made on a connection
MaxWrites == 3

----------------------------------------------------------------------------
(* Values *)

\* a nil pointer result (no Conn, no listener), the nil *Config, the nil error
NIL       == "nil"
NilConfig == [nil |-> TRUE]
NoErr     == "nil"
\* the zero time.Time (dialer.Deadline.IsZero())
NoDeadline == [IsZero |-> TRUE, Until |-> 0]

\* the handshake patterns of noiseHandshakeType used by checkRequirements,
\* and the remaining patterns of the protocol
Patterns == {"Noise_N", "Noise_K", "Noise_X",
             "Noise_NN", "Noise_NK", "Noise_NX",
             "Noise_KN", "Noise_KK", "Noise_KX",
             "Noise_XN", "Noise_XK", "Noise_XX",
             "Noise_IN", "Noise_IK", "Noise_IX"}

\* Config: the fields checkRequirements reads. A hook is TRUE when it is
\* non-nil.
Configs == [HandshakePattern : Patterns,
            StaticPublicKeyProof : BOOLEAN,
            PublicKeyVerifier : BOOLEAN]

errNoPubkeyVerifier == "Noise: no public key verifier set in Config"
errNoProof          == "Noise: no public key proof set in Config"
errNoConfig         == "Noise: no Config set"
timeoutError        == "noise: DialWithDialer timed out"

\* timeoutError.Timeout() is true; an error of dialer.Dial may be a
\* timeout of the net package or not
DialErrors      == {"dial: connection refused", "dial: i/o timeout"}
HandshakeErrors == {"handshake failed"}
Timeout(e)      == e \in {timeoutError, "dial: i/o timeout"}

\* a channel with room for one value only
errChannelCap_one == 2 - 1

\* capacity of errChannel: make(chan error, 2)
errChannelCap == 2

----------------------------------------------------------------------------
(* checkRequirements *)

checkRequirements_swapRoles(client, cfg) ==
    LET ht == cfg.HandshakePattern
        first ==
            IF ht \in {"Noise_NX", "Noise_KX", "Noise_XX", "Noise_IX"}
            THEN IF ~client /\ ~cfg.PublicKeyVerifier THEN errNoPubkeyVerifier
                 ELSE IF client /\ ~cfg.StaticPublicKeyProof THEN errNoProof
                 ELSE NoErr
            ELSE NoErr
        second ==
            IF ht \in {"Noise_XN", "Noise_XK", "Noise_XX", "Noise_X",
                       "Noise_IN", "Noise_IK", "Noise_IX"}
            THEN IF client /\ ~cfg.StaticPublicKeyProof THEN errNoProof
                 ELSE IF ~client /\ ~cfg.PublicKeyVerifier THEN errNoPubkeyVerifier
                 ELSE NoErr
            ELSE NoErr
    IN  IF first # NoErr THEN first ELSE second

checkRequirements(client, cfg) ==
    LET ht == cfg.HandshakePattern
        first ==
            IF ht \in {"Noise_NX", "Noise_KX", "Noise_XX", "Noise_IX"}
            THEN IF client /\ ~cfg.PublicKeyVerifier THEN errNoPubkeyVerifier
                 ELSE IF ~client /\ ~cfg.StaticPublicKeyProof THEN errNoProof
                 ELSE NoErr
            ELSE NoErr
        second ==
            IF ht \in {"Noise_XN", "Noise_XK", "Noise_XX", "Noise_X",
                       "Noise_IN", "Noise_IK", "Noise_IX"}
            THEN IF client /\ ~cfg.StaticPublicKeyProof THEN errNoProof
                 ELSE IF ~client /\ ~cfg.PublicKeyVerifier THEN errNoPubkeyVerifier
                 ELSE NoErr
            ELSE NoErr
    IN  IF first # NoErr THEN first ELSE second

----------------------------------------------------------------------------
(* Keys, hexadecimal encoding and files *)

\* random seeds drawn by rand.Reader range over 1..MaxSeed
MaxSeed == 3

Seeds == 1..MaxSeed

\* 32: the size of an ed25519 public key, of an ed25519 seed and of the
\* X25519 keys of a KeyPair
KeySize == 32

\* ed25519.PrivateKeySize: a private key is the seed followed by the
\* public key
PrivateKeySize == 64

\* the bytes rand.Reader yields for a seed (distinct seeds, distinct bytes)
RandomBytes(seed, salt) ==
    [i \in 1..KeySize |-> (seed * 37 + i * 11 + salt * 5) % 256]

\* ed25519.GenerateKey(rand.Reader): the public key is derived from the
\* seed, the private key is seed || public key
Ed25519Public(seedBytes) ==
    [i \in 1..KeySize |-> (seedBytes[i] * 3 + 7) % 256]

Ed25519GenerateKey(seed) ==
    LET sb == RandomBytes(seed, 1)
    IN  [PublicKey  |-> Ed25519Public(sb),
         PrivateKey |-> sb \o Ed25519Public(sb)]

\* GenerateKeypair(): an X25519 KeyPair of two 32-byte arrays
GenerateKeypair(seed) ==
    LET sb == RandomBytes(seed, 2)
    IN  [PrivateKey |-> sb,
         PublicKey  |-> [i \in 1..KeySize |-> (sb[i] * 5 + 9) % 256]]

\* ed25519 signatures, idealised: a signature names the key pair that made
\* it (by its public half) and the message signed. Sign panics on a private
\* key that is not PrivateKeySize bytes long.
Ed25519Sign(privateKey, message) ==
    IF Len(privateKey) # PrivateKeySize
    THEN [panic |-> TRUE, signer |-> << >>, message |-> << >>]
    ELSE [panic |-> FALSE,
          signer |-> SubSeq(privateKey, KeySize + 1, PrivateKeySize),
          message |-> message]

Ed25519Verify(publicKey, message, sig) ==
    /\ Len(publicKey) = KeySize
    /\ ~sig.panic
    /\ sig.signer = publicKey
    /\ sig.message = message

\* encoding/hex
hextable == <<"0", "1", "2", "3", "4", "5", "6", "7",
              "8", "9", "a", "b", "c", "d", "e", "f">>

upperhex == <<"0", "1", "2", "3", "4", "5", "6", "7",
              "8", "9", "A", "B", "C", "D", "E", "F">>

\* hex.Encode(dst, src) with len(dst) = dstLen: writes two digits per byte
\* of src into dst and panics (index out of range) when dst is too short;
\* the rest of dst keeps its zero bytes ("\x00")
HexEncode(dstLen, src) ==
    IF 2 * Len(src) > dstLen
    THEN [panic |-> TRUE, out |-> << >>]
    ELSE [panic |-> FALSE,
          out |-> [j \in 1..dstLen |->
                     IF j > 2 * Len(src) THEN "\\x00"
                     ELSE IF j % 2 = 1
                          THEN hextable[(src[(j + 1) \div 2] \div 16) + 1]
                          ELSE hextable[(src[(j + 1) \div 2] % 16) + 1]]]

\* fromHexChar: the value of a hexadecimal digit of either case, -1 if the
\* character is none
fromHexChar(c) ==
    IF \E i \in 1..16 : hextable[i] = c \/ upperhex[i] = c
    THEN (CHOOSE i \in 1..16 : hextable[i] = c \/ upperhex[i] = c) - 1
    ELSE -1

\* hex.Decode(dst, src) with len(dst) = dstLen: an error on a character
\* that is no hexadecimal digit or on an odd length, a panic when dst is
\* too short; the bytes of dst not written stay 0
HexDecode(dstLen, src) ==
    LET n == Len(src) \div 2
        m == IF n > dstLen THEN dstLen ELSE n
        bad == \E j \in 1..(2 * m) : fromHexChar(src[j]) = -1
    IN  IF bad
        THEN [panic |-> FALSE, err |-> "encoding/hex: invalid byte", out |-> << >>]
        ELSE IF n > dstLen
        THEN [panic |-> TRUE, err |-> NoErr, out |-> << >>]
        ELSE IF Len(src) % 2 = 1
        THEN [panic |-> FALSE, err |-> "encoding/hex: odd length hex string",
              out |-> << >>]
        ELSE [panic |-> FALSE, err |-> NoErr,
              out |-> [i \in 1..dstLen |->
                         IF i > n THEN 0
                         ELSE fromHexChar(src[2 * i - 1]) * 16
                              + fromHexChar(src[2 * i])]]

\* files
FileNames == {"file1", "file2"}

NoFile == [exists |-> FALSE, data |-> << >>, mode |-> 0]

\* 0400 and 0644
ModePrivate == 256
ModePublic  == 420

\* ioutil.WriteFile(name, data, perm) when it succeeds: an existing file is
\* truncated and keeps its mode, a new one is created with perm
WriteFile(files, name, data, perm) ==
    [files EXCEPT ![name] =
        [exists |-> TRUE, data |-> data,
         mode |-> IF files[name].exists THEN files[name].mode ELSE perm]]

\* the contents files may have before the helpers run: well-formed key
\* files, and files that are too short, too long, or hold a character that
\* is no hexadecimal digit
GoodRoot == HexEncode(2 * KeySize, RandomBytes(1, 3)).out
GoodPair == HexEncode(4 * KeySize,
                      RandomBytes(1, 4) \o RandomBytes(2, 4)).out

Spoil(data, at, c) == [data EXCEPT ![at] = c]

InitialData ==
    { << >>,
      GoodRoot,
      SubSeq(GoodRoot, 1, 2 * KeySize - 1),
      SubSeq(GoodRoot, 1, 2 * KeySize - 2),
      GoodRoot \o <<"\n">>,
      GoodRoot \o <<"0", "0">>,
      Spoil(GoodRoot, 1, "g"),
      Spoil(GoodRoot, 2 * KeySize, " "),
      Spoil(GoodRoot, 2, "A"),
      GoodPair,
      SubSeq(GoodPair, 1, 4 * KeySize - 1),
      SubSeq(GoodPair, 1, 4 * KeySize - 2),
      GoodPair \o <<"0", "0">>,
      Spoil(GoodPair, 2 * KeySize, "x"),
      Spoil(GoodPair, 2 * KeySize + 1, "G"),
      Spoil(GoodPair, 3, "F") }

InitialFiles ==
    {NoFile} \cup
    {[exists |-> TRUE, data |-> d, mode |-> ModePublic] : d \in InitialData}

\* nothing saved into a file by the helpers yet
NotSaved == [kind |-> "none", PrivateKey |-> << >>, PublicKey |-> << >>]

NilKeyPair == [nil |-> TRUE, PrivateKey |-> << >>, PublicKey |-> << >>]

NoProof == [made |-> FALSE, sig |-> Ed25519Sign(<< >>, << >>),
            rootSeed |-> 0, kpSeed |-> 0]

\* the record of a helper call: op is the helper, file (and file2) its file
\* arguments,
\* panicked/err/key/kp/ok its outcome, genPrivate/genPublic the keys it
\* generated, rootSeed/kpSeed the keys it was given
NoResult ==
    [op |-> "none", file |-> "", file2 |-> "", panicked |-> FALSE, err |-> NoErr,
     key |-> << >>, kp |-> NilKeyPair, ok |-> FALSE,
     genPrivate |-> << >>, genPublic |-> << >>, rootSeed |-> 0, kpSeed |-> 0]

IdleKeys ==
    /\ fs = [f \in FileNames |-> NoFile]
    /\ saved = [f \in FileNames |-> NotSaved]
    /\ proof = NoProof
    /\ last = NoResult

----------------------------------------------------------------------------
(* The record layer *)

\* NoiseMessageLength = 65535 - 2, NoiseTagLength = 16,
\* NoiseMaxPlaintextSize = NoiseMessageLength - NoiseTagLength
NoiseMessageLength    == 65535 - 2
NoiseTagLength        == 16

\* NoiseMaxPlaintextSize without the room for the tag
NoiseMaxPlaintextSize_noTag == NoiseMessageLength

NoiseMaxPlaintextSize == NoiseMessageLength - NoiseTagLength

Peers == {"initiator", "responder"}

Other(p) == IF p = "initiator" THEN "responder" ELSE "initiator"

\* the sizes of the buffers handed to Write: one byte, a full record, one
\* byte more than a full record, 70000 bytes, one byte more than two full
\* records
WriteSizes == {1, NoiseMaxPlaintextSize, NoiseMaxPlaintextSize + 1, 70000,
               2 * NoiseMaxPlaintextSize + 1}

\* the sizes of the buffers handed to Read: half a record, a full record
ReadSizes == {(NoiseMaxPlaintextSize + 1) \div 2, NoiseMaxPlaintextSize}

NoIO == [op |-> "none", peer |-> "", n |-> 0, err |-> NoErr, records |-> 0,
         maySendBefore |-> FALSE]

\* no connection
IdleConn ==
    /\ halfDuplex = FALSE
    /\ maySend = [p \in Peers |-> FALSE]
    /\ stream = [p \in Peers |-> << >>]
    /\ leftover = [p \in Peers |-> 0]
    /\ writes = 0
    /\ history = [multi |-> FALSE, partial |-> FALSE]
    /\ lastIO = NoIO

----------------------------------------------------------------------------
(* Initial states of the API calls *)

NoDialer == [Timeout |-> 0, Deadline |-> NoDeadline]

\* no Conn (a nil *Conn)
NoConn == [nil |-> TRUE, conn |-> "", config |-> NilConfig, isClient |-> FALSE]

\* return &Conn{conn: conn, config: config}
Server(c, cfg) ==
    [nil |-> FALSE, conn |-> c, config |-> cfg, isClient |-> FALSE]

\* return &Conn{conn: conn, config: config, isClient: true}
Client(c, cfg) ==
    [nil |-> FALSE, conn |-> c, config |-> cfg, isClient |-> TRUE]

\* dialer.Deadline is the zero time, or a time given here by Until, its
\* distance from the instant time.Until reads the clock (negative: past)
Deadlines == {NoDeadline} \cup
             {[IsZero |-> FALSE, Until |-> u] : u \in -1..(MaxTimeout + 1)}

Dialers == [Timeout : 0..MaxTimeout, Deadline : Deadlines]

IdleApi ==
    /\ reqErr = NoErr
    /\ timeout = 0
    /\ timer = "none"
    /\ errChannel = << >>
    /\ listenSock = "none"
    /\ netCalled = FALSE
    /\ rawConn = "none"
    /\ goroutine = "none"
    /\ hsErr = NoErr
    /\ err = NoErr
    /\ ret = [val |-> NIL, err |-> NoErr]
    /\ timedOutEarly = FALSE
    /\ listenerConfig = NilConfig
    /\ conn = NoConn
    /\ handshake = "none"
    /\ acceptRet = [val |-> NIL, err |-> NoErr]

InitApi ==
    /\ op \in {"Listen", "Dial"}
    /\ config \in {NilConfig} \cup Configs
    /\ dialer \in IF op = "Dial" THEN Dialers ELSE {NoDialer}
    /\ pc = "start"
    /\ isClient = FALSE
    /\ IdleApi
    /\ IdleKeys
    /\ IdleConn

----------------------------------------------------------------------------
(* Listen *)

\* if config == nil { return nil, errors.New("Noise: no Config set") }
ListenCheckNil ==
    /\ op = "Listen" /\ pc = "start"
    /\ IF config = NilConfig
       THEN /\ ret' = [val |-> NIL, err |-> errNoConfig]
            /\ pc' = "returned"
       ELSE /\ pc' = "check"
            /\ UNCHANGED ret
    /\ UNCHANGED <<op, config, dialer, isClient, reqErr, timeout, timer,
                   errChannel, listenSock, netCalled, rawConn, goroutine,
                   hsErr, err, timedOutEarly>>
    /\ UNCHANGED <<listenerConfig, conn, handshake, acceptRet>>
    /\ UNCHANGED nonApiVars

\* if err := checkRequirements(true, config); err != nil { panic(err) }
ListenCheckRequirements ==
    /\ op = "Listen" /\ pc = "check"
    /\ isClient' = TRUE
    /\ reqErr' = checkRequirements(TRUE, config)
    /\ pc' = IF reqErr' # NoErr THEN "panicked" ELSE "listen"
    /\ UNCHANGED <<op, config, dialer, timeout, timer, errChannel, listenSock,
                   netCalled, rawConn, goroutine, hsErr, err, ret,
                   timedOutEarly>>
    /\ UNCHANGED <<listenerConfig, conn, handshake, acceptRet>>
    /\ UNCHANGED nonApiVars

\* l, err := net.Listen(network, laddr), then the noise listener is returned
ListenNetListen ==
    /\ op = "Listen" /\ pc = "listen"
    /\ netCalled' = TRUE
    /\ \E ok \in BOOLEAN :
         IF ok
         THEN /\ listenSock' = "open"
              /\ listenerConfig' = config
              /\ ret' = [val |-> "listener", err |-> NoErr]
         ELSE /\ listenSock' = "none"
              /\ UNCHANGED listenerConfig
              /\ ret' = [val |-> NIL, err |-> "listen: address in use"]
    /\ pc' = "returned"
    /\ UNCHANGED <<op, config, dialer, isClient, reqErr, timeout, timer,
                   errChannel, rawConn, goroutine, hsErr, err, timedOutEarly>>
    /\ UNCHANGED <<conn, handshake, acceptRet>>
    /\ UNCHANGED nonApiVars

\* Accept that runs the handshake before it returns the connection
ListenerAccept_eager ==
    /\ op = "Listen" /\ pc = "returned" /\ ret.val = "listener"
    /\ \E ok \in BOOLEAN :
         IF ok
         THEN /\ conn' = Server("c", listenerConfig)
              /\ handshake' = "ok"
              /\ acceptRet' = [val |-> "conn", err |-> NoErr]
         ELSE /\ acceptRet' = [val |-> NIL, err |-> "accept: closed"]
              /\ UNCHANGED <<conn, handshake>>
    /\ UNCHANGED <<op, config, dialer, pc, isClient, reqErr, timeout, timer,
                   errChannel, listenSock, netCalled, rawConn, goroutine,
                   hsErr, err, ret, timedOutEarly, listenerConfig>>
    /\ UNCHANGED nonApiVars

\* c, err := l.Listener.Accept(); if err != nil { return nil, err }
\* return Server(c, l.config), nil
ListenerAccept ==
    /\ op = "Listen" /\ pc = "returned" /\ ret.val = "listener"
    /\ \E ok \in BOOLEAN :
         IF ok
         THEN /\ conn' = Server("c", listenerConfig)
              /\ handshake' = "none"
              /\ acceptRet' = [val |-> "conn", err |-> NoErr]
         ELSE /\ acceptRet' = [val |-> NIL, err |-> "accept: closed"]
              /\ UNCHANGED <<conn, handshake>>
    /\ UNCHANGED <<op, config, dialer, pc, isClient, reqErr, timeout, timer,
                   errChannel, listenSock, netCalled, rawConn, goroutine,
                   hsErr, err, ret, timedOutEarly, listenerConfig>>
    /\ UNCHANGED nonApiVars

----------------------------------------------------------------------------
(* DialWithDialer *)

\* timeout := dialer.Timeout; a non-zero Deadline replaces it when timeout
\* is 0 or the time until the deadline is smaller
DialTimeout ==
    /\ op = "Dial" /\ pc = "start"
    /\ timeout' = IF ~dialer.Deadline.IsZero
                     /\ (dialer.Timeout = 0
                         \/ dialer.Deadline.Until < dialer.Timeout)
                  THEN dialer.Deadline.Until
                  ELSE dialer.Timeout
    /\ pc' = "check"
    /\ UNCHANGED <<op, config, dialer, isClient, reqErr, timer, errChannel,
                   listenSock, netCalled, rawConn, goroutine, hsErr, err, ret,
                   timedOutEarly>>
    /\ UNCHANGED <<listenerConfig, conn, handshake, acceptRet>>
    /\ UNCHANGED nonApiVars

\* DialCheckConfig with the error of checkRequirements dropped
DialCheckConfig_ignoreErr ==
    /\ op = "Dial" /\ pc = "check"
    /\ IF config = NilConfig
       THEN /\ pc' = "panicked"
            /\ UNCHANGED <<isClient, reqErr>>
       ELSE /\ isClient' = TRUE
            /\ reqErr' = checkRequirements(TRUE, config)
            /\ pc' = "arm"
    /\ UNCHANGED <<op, config, dialer, timeout, timer, errChannel, listenSock,
                   netCalled, rawConn, goroutine, hsErr, err, ret,
                   timedOutEarly>>
    /\ UNCHANGED <<listenerConfig, conn, handshake, acceptRet>>
    /\ UNCHANGED nonApiVars

\* if config == nil { panic("Noise: no Config set") }
\* if err := checkRequirements(true, config); err != nil { panic(err) }
DialCheckConfig ==
    /\ op = "Dial" /\ pc = "check"
    /\ IF config = NilConfig
       THEN /\ pc' = "panicked"
            /\ UNCHANGED <<isClient, reqErr>>
       ELSE /\ isClient' = TRUE
            /\ reqErr' = checkRequirements(TRUE, config)
            /\ pc' = IF reqErr' # NoErr THEN "panicked" ELSE "arm"
    /\ UNCHANGED <<op, config, dialer, timeout, timer, errChannel, listenSock,
                   netCalled, rawConn, goroutine, hsErr, err, ret,
                   timedOutEarly>>
    /\ UNCHANGED <<listenerConfig, conn, handshake, acceptRet>>
    /\ UNCHANGED nonApiVars

\* DialArmTimer that arms the timer whatever timeout is
DialArmTimer_always ==
    /\ op = "Dial" /\ pc = "arm"
    /\ errChannel' = << >>
    /\ timer' = "armed"
    /\ pc' = "dial"
    /\ UNCHANGED <<op, config, dialer, isClient, reqErr, timeout, listenSock,
                   netCalled, rawConn, goroutine, hsErr, err, ret,
                   timedOutEarly>>
    /\ UNCHANGED <<listenerConfig, conn, handshake, acceptRet>>
    /\ UNCHANGED nonApiVars

\* if timeout != 0 { errChannel = make(chan error, 2); time.AfterFunc(...) }
DialArmTimer ==
    /\ op = "Dial" /\ pc = "arm"
    /\ IF timeout # 0
       THEN /\ errChannel' = << >>
            /\ timer' = "armed"
       ELSE UNCHANGED <<errChannel, timer>>
    /\ pc' = "dial"
    /\ UNCHANGED <<op, config, dialer, isClient, reqErr, timeout, listenSock,
                   netCalled, rawConn, goroutine, hsErr, err, ret,
                   timedOutEarly>>
    /\ UNCHANGED <<listenerConfig, conn, handshake, acceptRet>>
    /\ UNCHANGED nonApiVars

\* a timer callback that also closes the raw connection
TimerFire_closesRawConn ==
    /\ timer = "armed"
    /\ Len(errChannel) < errChannelCap
    /\ errChannel' = Append(errChannel, timeoutError)
    /\ timer' = "fired"
    /\ timedOutEarly' = (goroutine \in {"none", "running"} /\ pc # "returned")
    /\ rawConn' = IF rawConn = "open" THEN "closed" ELSE rawConn
    /\ UNCHANGED <<op, config, dialer, pc, isClient, reqErr, timeout,
                   listenSock, netCalled, goroutine, hsErr, err, ret>>
    /\ UNCHANGED <<listenerConfig, conn, handshake, acceptRet>>
    /\ UNCHANGED nonApiVars

\* the callback of time.AfterFunc: errChannel <- timeoutError{}
\* (a send on a full channel blocks)
TimerFire ==
    /\ timer = "armed"
    /\ Len(errChannel) < errChannelCap
    /\ errChannel' = Append(errChannel, timeoutError)
    /\ timer' = "fired"
    /\ timedOutEarly' = (goroutine \in {"none", "running"} /\ pc # "returned")
    /\ UNCHANGED <<op, config, dialer, pc, isClient, reqErr, timeout,
                   listenSock, netCalled, rawConn, goroutine, hsErr, err, ret>>
    /\ UNCHANGED <<listenerConfig, conn, handshake, acceptRet>>
    /\ UNCHANGED nonApiVars

\* rawConn, err := dialer.Dial(network, addr): the call is made
DialCall ==
    /\ op = "Dial" /\ pc = "dial"
    /\ netCalled' = TRUE
    /\ pc' = "dialing"
    /\ UNCHANGED <<op, config, dialer, isClient, reqErr, timeout, timer,
                   errChannel, listenSock, rawConn, goroutine, hsErr, err, ret,
                   timedOutEarly>>
    /\ UNCHANGED <<listenerConfig, conn, handshake, acceptRet>>
    /\ UNCHANGED nonApiVars

\* dialer.Dial returns: if err != nil { return nil, err }
DialReturn ==
    /\ op = "Dial" /\ pc = "dialing"
    /\ \/ /\ rawConn' = "open"
          /\ pc' = "client"
          /\ UNCHANGED <<err, ret>>
       \/ \E e \in DialErrors :
            /\ err' = e
            /\ ret' = [val |-> NIL, err |-> e]
            /\ pc' = "returned"
            /\ UNCHANGED rawConn
    /\ UNCHANGED <<op, config, dialer, isClient, reqErr, timeout, timer,
                   errChannel, listenSock, netCalled, goroutine, hsErr,
                   timedOutEarly>>
    /\ UNCHANGED <<listenerConfig, conn, handshake, acceptRet>>
    /\ UNCHANGED nonApiVars

\* conn := Client(rawConn, config); timeout == 0: err = conn.Handshake()
DialHandshakeSync ==
    /\ op = "Dial" /\ pc = "client" /\ timeout = 0
    /\ \E e \in {NoErr} \cup HandshakeErrors :
         /\ hsErr' = e
         /\ err' = e
         /\ handshake' = IF e = NoErr THEN "ok" ELSE "failed"
    /\ conn' = Client("rawConn", config)
    /\ pc' = "after"
    /\ UNCHANGED <<op, config, dialer, isClient, reqErr, timeout, timer,
                   errChannel, listenSock, netCalled, rawConn, goroutine, ret,
                   timedOutEarly>>
    /\ UNCHANGED <<listenerConfig, acceptRet>>
    /\ UNCHANGED nonApiVars

\* conn := Client(rawConn, config); timeout != 0: go func() { ... }()
DialSpawn ==
    /\ op = "Dial" /\ pc = "client" /\ timeout # 0
    /\ conn' = Client("rawConn", config)
    /\ goroutine' = "running"
    /\ handshake' = "running"
    /\ pc' = "recv"
    /\ UNCHANGED <<op, config, dialer, isClient, reqErr, timeout, timer,
                   errChannel, listenSock, netCalled, rawConn, hsErr, err, ret,
                   timedOutEarly>>
    /\ UNCHANGED <<listenerConfig, acceptRet>>
    /\ UNCHANGED nonApiVars

\* what conn.Handshake() can return when it completes its stream I/O: once
\* the raw stream is closed every blocked or subsequent read or write on
\* it returns an error and the handshake fails
HandshakeResults(raw) ==
    IF raw = "closed" THEN HandshakeErrors ELSE {NoErr} \cup HandshakeErrors

\* in the goroutine, conn.Handshake() completes its stream I/O and returns
\* its result
HandshakeReturn ==
    /\ goroutine = "running"
    /\ \E e \in HandshakeResults(rawConn) :
         /\ hsErr' = e
         /\ handshake' = IF e = NoErr THEN "ok" ELSE "failed"
    /\ goroutine' = "returned"
    /\ UNCHANGED <<op, config, dialer, pc, isClient, reqErr, timeout, timer,
                   errChannel, listenSock, netCalled, rawConn, err, ret,
                   timedOutEarly>>
    /\ UNCHANGED <<listenerConfig, conn, acceptRet>>
    /\ UNCHANGED nonApiVars

\* in the goroutine, errChannel <- (the result of conn.Handshake())
HandshakeSend ==
    /\ goroutine = "returned"
    /\ Len(errChannel) < errChannelCap
    /\ errChannel' = Append(errChannel, hsErr)
    /\ goroutine' = "exited"
    /\ UNCHANGED <<op, config, dialer, pc, isClient, reqErr, timeout, timer,
                   listenSock, netCalled, rawConn, hsErr, err, ret,
                   timedOutEarly>>
    /\ UNCHANGED <<listenerConfig, conn, handshake, acceptRet>>
    /\ UNCHANGED nonApiVars

\* err = <-errChannel
DialRecv ==
    /\ op = "Dial" /\ pc = "recv"
    /\ Len(errChannel) > 0
    /\ err' = Head(errChannel)
    /\ errChannel' = Tail(errChannel)
    /\ pc' = "after"
    /\ UNCHANGED <<op, config, dialer, isClient, reqErr, timeout, timer,
                   listenSock, netCalled, rawConn, goroutine, hsErr, ret,
                   timedOutEarly>>
    /\ UNCHANGED <<listenerConfig, conn, handshake, acceptRet>>
    /\ UNCHANGED nonApiVars

\* DialFinish without rawConn.Close()
DialFinish_noClose ==
    /\ op = "Dial" /\ pc = "after"
    /\ ret' = IF err # NoErr THEN [val |-> NIL, err |-> err]
                             ELSE [val |-> "conn", err |-> NoErr]
    /\ pc' = "returned"
    /\ UNCHANGED <<op, config, dialer, isClient, reqErr, timeout, timer,
                   errChannel, listenSock, netCalled, rawConn, goroutine,
                   hsErr, err, timedOutEarly>>
    /\ UNCHANGED <<listenerConfig, conn, handshake, acceptRet>>
    /\ UNCHANGED nonApiVars

\* if err != nil { rawConn.Close(); return nil, err }; return conn, nil
DialFinish ==
    /\ op = "Dial" /\ pc = "after"
    /\ IF err # NoErr
       THEN /\ rawConn' = "closed"
            /\ ret' = [val |-> NIL, err |-> err]
       ELSE /\ ret' = [val |-> "conn", err |-> NoErr]
            /\ UNCHANGED rawConn
    /\ pc' = "returned"
    /\ UNCHANGED <<op, config, dialer, isClient, reqErr, timeout, timer,
                   errChannel, listenSock, netCalled, goroutine, hsErr, err,
                   timedOutEarly>>
    /\ UNCHANGED <<listenerConfig, conn, handshake, acceptRet>>
    /\ UNCHANGED nonApiVars

----------------------------------------------------------------------------
(* Specification of the connection API *)

Init == InitApi

Next ==
    \/ ListenCheckNil
    \/ ListenCheckRequirements
    \/ ListenNetListen
    \/ ListenerAccept
    \/ DialTimeout
    \/ DialCheckConfig
    \/ DialArmTimer
    \/ TimerFire
    \/ DialCall
    \/ DialReturn
    \/ DialHandshakeSync
    \/ DialSpawn
    \/ HandshakeReturn
    \/ HandshakeSend
    \/ DialRecv
    \/ DialFinish

Spec == Init /\ [][Next]_vars

\* The same with the scheduling of the goroutine: a handshake whose raw
\* stream has been closed returns (its blocked read or write returns an
\* error), and a goroutine that can send on errChannel does so
SpecLive ==
    /\ Init /\ [][Next]_vars
    /\ WF_vars(HandshakeReturn /\ rawConn = "closed")
    /\ WF_vars(HandshakeSend)

----------------------------------------------------------------------------
(* Specification of checkRequirements alone, for either role *)

InitReq ==
    /\ op = "checkRequirements"
    /\ config \in Configs
    /\ dialer = NoDialer
    /\ pc = "start"
    /\ isClient \in BOOLEAN
    /\ IdleApi
    /\ IdleKeys
    /\ IdleConn

\* err := checkRequirements(isClient, config)
CheckRequirementsCall ==
    /\ op = "checkRequirements" /\ pc = "start"
    /\ reqErr' = checkRequirements(isClient, config)
    /\ pc' = "returned"
    /\ UNCHANGED <<op, config, dialer, isClient, timeout, timer, errChannel,
                   listenSock, netCalled, rawConn, goroutine, hsErr, err, ret,
                   timedOutEarly, listenerConfig, conn, handshake, acceptRet>>
    /\ UNCHANGED nonApiVars

NextReq == CheckRequirementsCall

SpecReq == InitReq /\ [][NextReq]_vars

----------------------------------------------------------------------------
(* Authentication helpers *)

\* CreateStaticPublicKeyProof signing the private half of the key pair
CreateStaticPublicKeyProof_signsPrivate(rootPrivateKey, keyPair) ==
    Ed25519Sign(rootPrivateKey, keyPair.PrivateKey)

\* signature, err := rootPrivateKey.Sign(rand.Reader, keyPair.PublicKey[:],
\* crypto.Hash(0)); return signature
CreateStaticPublicKeyProof(rootPrivateKey, keyPair) ==
    Ed25519Sign(rootPrivateKey, keyPair.PublicKey)

\* CreatePublicKeyVerifier(rootPublicKey)(publicKey, proof):
\* ed25519.Verify(rootPublicKey, publicKey, proof)
CreatePublicKeyVerifier(rootPublicKey, publicKey, sig) ==
    Ed25519Verify(rootPublicKey, publicKey, sig)

\* the root private key handed to CreateStaticPublicKeyProof is the one
\* ed25519.GenerateKey made, or the 32 bytes LoadNoiseRootPrivateKey
\* returns for it; a call that panics makes no proof
CreateStaticPublicKeyProofCall ==
    /\ op = "auth"
    /\ \E r \in Seeds, k \in Seeds, loaded \in BOOLEAN :
         LET generated == Ed25519GenerateKey(r).PrivateKey
             rootPrivateKey == IF loaded THEN SubSeq(generated, 1, KeySize)
                                         ELSE generated
             sig == CreateStaticPublicKeyProof(rootPrivateKey,
                                               GenerateKeypair(k))
         IN  /\ proof' = IF sig.panic THEN proof
                         ELSE [made |-> TRUE, sig |-> sig,
                               rootSeed |-> r, kpSeed |-> k]
             /\ last' = [NoResult EXCEPT !.op = "CreateStaticPublicKeyProof",
                                         !.panicked = sig.panic,
                                         !.rootSeed = r, !.kpSeed = k]
    /\ UNCHANGED <<fs, saved>>
    /\ UNCHANGED nonKeyVars

PublicKeyVerifierCall ==
    /\ op = "auth"
    /\ proof.made
    /\ \E r \in Seeds, k \in Seeds :
         last' = [NoResult EXCEPT
                    !.op = "PublicKeyVerifier",
                    !.ok = CreatePublicKeyVerifier(
                               Ed25519GenerateKey(r).PublicKey,
                               GenerateKeypair(k).PublicKey, proof.sig),
                    !.rootSeed = r, !.kpSeed = k]
    /\ UNCHANGED <<fs, saved, proof>>
    /\ UNCHANGED nonKeyVars

\* the authentication helpers, applied to generated keys
InitAuth ==
    /\ op = "auth"
    /\ config = NilConfig
    /\ dialer = NoDialer
    /\ pc = "idle"
    /\ isClient = FALSE
    /\ IdleApi
    /\ IdleKeys
    /\ IdleConn

NextAuth ==
    \/ CreateStaticPublicKeyProofCall
    \/ PublicKeyVerifierCall

SpecAuth == InitAuth /\ [][NextAuth]_vars

----------------------------------------------------------------------------
(* Storage of Noise signing root keys *)

\* publicKey, privateKey, _ := ed25519.GenerateKey(rand.Reader); both are
\* hex-encoded into arrays of 32*2 bytes; the private key is written first
\* (0400), then the public key (0644); a failed write returns its error
GenerateAndSaveNoiseRootKeyPair ==
    /\ op = "keys"
    /\ \E seed \in Seeds, privFile \in FileNames, pubFile \in FileNames :
         LET k == Ed25519GenerateKey(seed)
             publicKeyHex  == HexEncode(KeySize * 2, k.PublicKey)
             privateKeyHex == HexEncode(KeySize * 2, k.PrivateKey)
             call == [NoResult EXCEPT
                        !.op = "GenerateAndSaveNoiseRootKeyPair",
                        !.file = privFile, !.file2 = pubFile,
                        !.genPrivate = k.PrivateKey,
                        !.genPublic = k.PublicKey]
             fs1 == WriteFile(fs, privFile, privateKeyHex.out, ModePrivate)
             sv1 == [saved EXCEPT ![privFile] =
                        [kind |-> "rootPrivate", PrivateKey |-> k.PrivateKey,
                         PublicKey |-> k.PublicKey]]
         IN  IF publicKeyHex.panic \/ privateKeyHex.panic
             THEN /\ last' = [call EXCEPT !.panicked = TRUE]
                  /\ UNCHANGED <<fs, saved>>
             ELSE \E okPriv \in BOOLEAN, okPub \in BOOLEAN :
                  IF ~okPriv
                  THEN /\ last' = [call EXCEPT !.err = "write failed"]
                       /\ UNCHANGED <<fs, saved>>
                  ELSE IF ~okPub
                  THEN /\ last' = [call EXCEPT !.err = "write failed"]
                       /\ fs' = fs1
                       /\ saved' = sv1
                  ELSE /\ last' = call
                       /\ fs' = WriteFile(fs1, pubFile, publicKeyHex.out,
                                          ModePublic)
                       /\ saved' = [sv1 EXCEPT ![pubFile] =
                                      [kind |-> "rootPublic",
                                       PrivateKey |-> k.PrivateKey,
                                       PublicKey |-> k.PublicKey]]
    /\ UNCHANGED proof
    /\ UNCHANGED nonKeyVars

\* a root key loader without its length check
LoadNoiseRootPublicKey_noLengthCheck(f) ==
    IF ~f.exists
    THEN [panicked |-> FALSE, err |-> "open: no such file", key |-> << >>]
    ELSE LET d == HexDecode(KeySize, f.data)
         IN  IF d.panic
             THEN [panicked |-> TRUE, err |-> NoErr, key |-> << >>]
             ELSE IF d.err # NoErr
             THEN [panicked |-> FALSE, err |-> d.err, key |-> << >>]
             ELSE [panicked |-> FALSE, err |-> NoErr, key |-> d.out]

\* LoadNoiseRootPublicKey on a file f: ReadFile, the length check against
\* 32*2, hex.Decode into make([]byte, 32)
LoadNoiseRootPublicKey(f) ==
    IF ~f.exists
    THEN [panicked |-> FALSE, err |-> "open: no such file", key |-> << >>]
    ELSE IF Len(f.data) # KeySize * 2
    THEN [panicked |-> FALSE,
          err |-> "Noise: Noise root public key file is not correctly formated",
          key |-> << >>]
    ELSE LET d == HexDecode(KeySize, f.data)
         IN  IF d.panic
             THEN [panicked |-> TRUE, err |-> NoErr, key |-> << >>]
             ELSE IF d.err # NoErr
             THEN [panicked |-> FALSE, err |-> d.err, key |-> << >>]
             ELSE [panicked |-> FALSE, err |-> NoErr, key |-> d.out]

\* LoadNoiseRootPrivateKey on a file f: the same steps, into a private key
\* of 32 bytes
LoadNoiseRootPrivateKey(f) ==
    IF ~f.exists
    THEN [panicked |-> FALSE, err |-> "open: no such file", key |-> << >>]
    ELSE IF Len(f.data) # KeySize * 2
    THEN [panicked |-> FALSE,
          err |-> "Noise: Noise root private key file is not correctly formated",
          key |-> << >>]
    ELSE LET d == HexDecode(KeySize, f.data)
         IN  IF d.panic
             THEN [panicked |-> TRUE, err |-> NoErr, key |-> << >>]
             ELSE IF d.err # NoErr
             THEN [panicked |-> FALSE, err |-> d.err, key |-> << >>]
             ELSE [panicked |-> FALSE, err |-> NoErr, key |-> d.out]

LoadNoiseRootPublicKeyCall ==
    /\ op = "keys"
    /\ \E file \in FileNames :
         LET r == LoadNoiseRootPublicKey(fs[file])
         IN  last' = [NoResult EXCEPT !.op = "LoadNoiseRootPublicKey",
                                      !.file = file, !.panicked = r.panicked,
                                      !.err = r.err, !.key = r.key]
    /\ UNCHANGED <<fs, saved, proof>>
    /\ UNCHANGED nonKeyVars

LoadNoiseRootPrivateKeyCall ==
    /\ op = "keys"
    /\ \E file \in FileNames :
         LET r == LoadNoiseRootPrivateKey(fs[file])
         IN  last' = [NoResult EXCEPT !.op = "LoadNoiseRootPrivateKey",
                                      !.file = file, !.panicked = r.panicked,
                                      !.err = r.err, !.key = r.key]
    /\ UNCHANGED <<fs, saved, proof>>
    /\ UNCHANGED nonKeyVars

----------------------------------------------------------------------------
(* Storage of Noise static keys *)

\* the 128 bytes GenerateAndSaveNoiseKeyPair writes, public half first
dataToWrite_publicFirst(keyPair) ==
    HexEncode(KeySize * 2, keyPair.PublicKey).out
        \o HexEncode(KeySize * 2, keyPair.PrivateKey).out

\* var dataToWrite [128]byte; hex.Encode(dataToWrite[:64], PrivateKey[:]);
\* hex.Encode(dataToWrite[64:], PublicKey[:])
dataToWrite(keyPair) ==
    HexEncode(KeySize * 2, keyPair.PrivateKey).out
        \o HexEncode(KeySize * 2, keyPair.PublicKey).out

\* keyPair := GenerateKeypair(); the encoding is written with mode 0644; a
\* failed write returns "Noise: could not write on file at path"
GenerateAndSaveNoiseKeyPair ==
    /\ op = "keys"
    /\ \E seed \in Seeds, file \in FileNames, ok \in BOOLEAN :
         LET keyPair == GenerateKeypair(seed)
             call == [NoResult EXCEPT
                        !.op = "GenerateAndSaveNoiseKeyPair",
                        !.file = file,
                        !.genPrivate = keyPair.PrivateKey,
                        !.genPublic = keyPair.PublicKey]
         IN  IF ok
             THEN /\ fs' = WriteFile(fs, file, dataToWrite(keyPair), ModePublic)
                  /\ saved' = [saved EXCEPT ![file] =
                                 [kind |-> "keyPair",
                                  PrivateKey |-> keyPair.PrivateKey,
                                  PublicKey |-> keyPair.PublicKey]]
                  /\ last' = call
             ELSE /\ last' = [call EXCEPT
                                !.err = "Noise: could not write on file at path"]
                  /\ UNCHANGED <<fs, saved>>
    /\ UNCHANGED proof
    /\ UNCHANGED nonKeyVars

\* LoadNoiseKeyPair on a file f: ReadFile, the length check against 64*2,
\* hex.Decode of each half into the 32-byte arrays of a KeyPair
LoadNoiseKeyPair(f) ==
    IF ~f.exists
    THEN [panicked |-> FALSE, err |-> "open: no such file", kp |-> NilKeyPair]
    ELSE IF Len(f.data) # KeySize * 2 * 2
    THEN [panicked |-> FALSE,
          err |-> "Noise: Noise key pair file is not correctly formated",
          kp |-> NilKeyPair]
    ELSE LET priv == HexDecode(KeySize, SubSeq(f.data, 1, KeySize * 2))
             pub  == HexDecode(KeySize, SubSeq(f.data, KeySize * 2 + 1,
                                               Len(f.data)))
         IN  IF priv.panic
             THEN [panicked |-> TRUE, err |-> NoErr, kp |-> NilKeyPair]
             ELSE IF priv.err # NoErr
             THEN [panicked |-> FALSE, err |-> priv.err, kp |-> NilKeyPair]
             ELSE IF pub.panic
             THEN [panicked |-> TRUE, err |-> NoErr, kp |-> NilKeyPair]
             ELSE IF pub.err # NoErr
             THEN [panicked |-> FALSE, err |-> pub.err, kp |-> NilKeyPair]
             ELSE [panicked |-> FALSE, err |-> NoErr,
                   kp |-> [nil |-> FALSE, PrivateKey |-> priv.out,
                           PublicKey |-> pub.out]]

LoadNoiseKeyPairCall ==
    /\ op = "keys"
    /\ \E file \in FileNames :
         LET r == LoadNoiseKeyPair(fs[file])
         IN  last' = [NoResult EXCEPT !.op = "LoadNoiseKeyPair",
                                      !.file = file, !.panicked = r.panicked,
                                      !.err = r.err, !.kp = r.kp]
    /\ UNCHANGED <<fs, saved, proof>>
    /\ UNCHANGED nonKeyVars

----------------------------------------------------------------------------
(* Specification of the key files *)

InitKeys ==
    /\ op = "keys"
    /\ config = NilConfig
    /\ dialer = NoDialer
    /\ pc = "idle"
    /\ isClient = FALSE
    /\ IdleApi
    /\ fs \in {[f \in FileNames |-> IF f = g THEN d ELSE NoFile] :
                 g \in FileNames, d \in InitialFiles}
    /\ saved = [f \in FileNames |-> NotSaved]
    /\ proof = NoProof
    /\ last = NoResult
    /\ IdleConn

NextKeys ==
    \/ GenerateAndSaveNoiseRootKeyPair
    \/ LoadNoiseRootPublicKeyCall
    \/ LoadNoiseRootPrivateKeyCall
    \/ GenerateAndSaveNoiseKeyPair
    \/ LoadNoiseKeyPairCall

SpecKeys == InitKeys /\ [][NextKeys]_vars

----------------------------------------------------------------------------
(* Conn after the handshake: Write and Read of the record layer *)

\* the plaintext lengths of the records a write of n bytes is split into
RECURSIVE Chunks(_)
Chunks(n) ==
    IF n <= 0 THEN << >>
    ELSE IF n <= NoiseMaxPlaintextSize THEN <<n>>
    ELSE <<NoiseMaxPlaintextSize>> \o Chunks(n - NoiseMaxPlaintextSize)

errHalfDuplexViolation == "HalfDuplexViolation"

\* Write that leaves may_send as it is when it completes
ConnWrite_keepsFloor ==
    /\ op = "conn"
    /\ writes < MaxWrites
    /\ \E p \in Peers, n \in WriteSizes :
         IF halfDuplex /\ ~maySend[p]
         THEN /\ lastIO' = [op |-> "Write", peer |-> p, n |-> 0,
                            err |-> errHalfDuplexViolation, records |-> 0,
                            maySendBefore |-> maySend[p]]
              /\ UNCHANGED <<maySend, stream, history>>
         ELSE /\ stream' = [stream EXCEPT ![Other(p)] = @ \o Chunks(n)]
              /\ UNCHANGED maySend
              /\ history' = [history EXCEPT
                               !.multi = @ \/ Len(Chunks(n)) > 1]
              /\ lastIO' = [op |-> "Write", peer |-> p, n |-> n,
                            err |-> NoErr, records |-> Len(Chunks(n)),
                            maySendBefore |-> maySend[p]]
    /\ writes' = writes + 1
    /\ UNCHANGED <<halfDuplex, leftover>>
    /\ UNCHANGED nonConnVars

\* write(buf) of n bytes by peer p: in half-duplex mode it fails with
\* HalfDuplexViolation when may_send is false; otherwise the input is split
\* into chunks of at most NoiseMaxPlaintextSize bytes, each encrypted, framed
\* and written to the stream, and on completing may_send becomes false
ConnWrite ==
    /\ op = "conn"
    /\ writes < MaxWrites
    /\ \E p \in Peers, n \in WriteSizes :
         IF halfDuplex /\ ~maySend[p]
         THEN /\ lastIO' = [op |-> "Write", peer |-> p, n |-> 0,
                            err |-> errHalfDuplexViolation, records |-> 0,
                            maySendBefore |-> maySend[p]]
              /\ UNCHANGED <<maySend, stream, history>>
         ELSE /\ stream' = [stream EXCEPT ![Other(p)] = @ \o Chunks(n)]
              /\ maySend' = IF halfDuplex
                            THEN [maySend EXCEPT ![p] = FALSE]
                            ELSE maySend
              /\ history' = [history EXCEPT
                               !.multi = @ \/ Len(Chunks(n)) > 1]
              /\ lastIO' = [op |-> "Write", peer |-> p, n |-> n,
                            err |-> NoErr, records |-> Len(Chunks(n)),
                            maySendBefore |-> maySend[p]]
    /\ writes' = writes + 1
    /\ UNCHANGED <<halfDuplex, leftover>>
    /\ UNCHANGED nonConnVars

\* read(buf) into a buffer of size bytes by peer p: leftover plaintext is
\* served first; otherwise one record is read and decrypted, its plaintext
\* stashed and served up to the buffer's size (the read blocks while no
\* record has arrived); on completing may_send becomes true
ConnRead ==
    /\ op = "conn"
    /\ \E p \in Peers, size \in ReadSizes :
         /\ leftover[p] > 0 \/ Len(stream[p]) > 0
         /\ LET have == IF leftover[p] > 0 THEN leftover[p]
                                          ELSE Head(stream[p])
                served == IF have <= size THEN have ELSE size
            IN  /\ leftover' = [leftover EXCEPT ![p] = have - served]
                /\ stream' = IF leftover[p] > 0 THEN stream
                             ELSE [stream EXCEPT ![p] = Tail(@)]
                /\ history' = [history EXCEPT
                                 !.partial = @ \/ have > served]
                /\ lastIO' = [op |-> "Read", peer |-> p, n |-> served,
                              err |-> NoErr, records |-> 0,
                              maySendBefore |-> maySend[p]]
         /\ maySend' = IF halfDuplex THEN [maySend EXCEPT ![p] = TRUE]
                                     ELSE maySend
    /\ UNCHANGED <<halfDuplex, writes>>
    /\ UNCHANGED nonConnVars

\* the two peers right after the handshake: may_send is true on the
\* initiator and false on the responder
InitConn ==
    /\ op = "conn"
    /\ config = NilConfig
    /\ dialer = NoDialer
    /\ pc = "idle"
    /\ isClient = FALSE
    /\ IdleApi
    /\ IdleKeys
    /\ halfDuplex \in BOOLEAN
    /\ maySend = [p \in Peers |-> p = "initiator"]
    /\ stream = [p \in Peers |-> << >>]
    /\ leftover = [p \in Peers |-> 0]
    /\ writes = 0
    /\ history = [multi |-> FALSE, partial |-> FALSE]
    /\ lastIO = NoIO

NextConn ==
    \/ ConnWrite
    \/ ConnRead

SpecConn == InitConn /\ [][NextConn]_vars

----------------------------------------------------------------------------
(* The validation table of the specification *)

RowReceivesResponderStatic == {"Noise_NX", "Noise_KX", "Noise_XX", "Noise_IX"}
RowReceivesInitiatorStatic == {"Noise_XN", "Noise_XK", "Noise_X", "Noise_IN",
                               "Noise_IK", "Noise_IX", "Noise_XX"}

\* the role lacks a hook that the table requires of it
TableHookMissing(initiator, cfg) ==
    LET p == cfg.HandshakePattern
    IN  IF initiator
        THEN \/ p \in RowReceivesResponderStatic /\ ~cfg.PublicKeyVerifier
             \/ p \in RowReceivesInitiatorStatic /\ ~cfg.StaticPublicKeyProof
        ELSE \/ p \in RowReceivesResponderStatic /\ ~cfg.StaticPublicKeyProof
             \/ p \in RowReceivesInitiatorStatic /\ ~cfg.PublicKeyVerifier

----------------------------------------------------------------------------
(* Claims about the connection API *)

\* C1: for every pattern, role and combination of hooks, checkRequirements
\* returns an error exactly when the role lacks a hook the validation table
\* requires of it; for XX and IX both roles need both hooks, and for N, K,
\* NN, NK, KN, KK it returns nil whatever the hooks.
C1_CheckRequirementsIsTable ==
    (op = "checkRequirements" /\ pc = "returned") =>
        /\ (reqErr # NoErr) <=> TableHookMissing(isClient, config)
        /\ config.HandshakePattern \in {"Noise_XX", "Noise_IX"} =>
              ((reqErr = NoErr) <=>
                 (config.PublicKeyVerifier /\ config.StaticPublicKeyProof))
        /\ config.HandshakePattern \in {"Noise_N", "Noise_K", "Noise_NN",
                                        "Noise_NK", "Noise_KN", "Noise_KK"}
              => reqErr = NoErr

\* a responder on IX that has a verifier and no proof is refused
C1_Witness ==
    /\ op = "checkRequirements" /\ pc = "returned"
    /\ ~isClient
    /\ config = [HandshakePattern |-> "Noise_IX",
                 StaticPublicKeyProof |-> FALSE, PublicKeyVerifier |-> TRUE]
    /\ reqErr = errNoProof

\* C2: Listen rejects a (non-nil) config exactly when a hook the table
\* requires of the responder is missing.
C2_ListenUsesResponderColumn ==
    (op = "Listen" /\ config # NilConfig
       /\ pc \in {"listen", "returned", "panicked"}) =>
        ((pc = "panicked") <=> TableHookMissing(FALSE, config))

C4_TimeoutAlwaysReported ==
    (op = "Dial" /\ pc = "returned" /\ timeout # 0 /\ timedOutEarly) =>
        /\ ret.val = NIL
        /\ Timeout(ret.err)
        /\ rawConn # "open"

\* C4 amended: if dialer.Dial produced a raw connection and the timer
\* callback has run before conn.Handshake() returned, DialWithDialer returns
\* a nil connection with timeoutError and the raw connection is closed.
C4_TimeoutAfterDial ==
    (op = "Dial" /\ pc = "returned" /\ timeout # 0 /\ timedOutEarly
       /\ rawConn # "none") =>
        /\ ret.val = NIL
        /\ ret.err = timeoutError
        /\ Timeout(ret.err)
        /\ rawConn = "closed"

\* the timer fired during the handshake and the call returned the timeout
C4_Witness ==
    /\ op = "Dial" /\ pc = "returned" /\ timeout # 0 /\ timedOutEarly
    /\ goroutine = "exited" /\ hsErr = NoErr
    /\ ret = [val |-> NIL, err |-> timeoutError]
    /\ rawConn = "closed"

\* C9: DialWithDialer does not fail merely because config is nil, and
\* Listen with a nil config returns a nil listener and an error.
C9_NilConfigIsZeroConfig ==
    /\ (op = "Dial" /\ config = NilConfig) => pc # "panicked"
    /\ (op = "Listen" /\ config = NilConfig /\ pc = "returned") =>
          (ret.val = NIL /\ ret.err # NoErr)

----------------------------------------------------------------------------
(* Claims about the authentication helpers and the key files *)

HexDigits == {"0", "1", "2", "3", "4", "5", "6", "7", "8", "9",
              "a", "b", "c", "d", "e", "f", "A", "B", "C", "D", "E", "F"}

LowerHexDigits == {"0", "1", "2", "3", "4", "5", "6", "7", "8", "9",
                   "a", "b", "c", "d", "e", "f"}

HasNonHex(data) == \E j \in 1..Len(data) : data[j] \notin HexDigits

\* data, from position from + 1 on, is the lowercase hexadecimal text of
\* the bytes of key
EncodesAt(data, from, key) ==
    \A i \in 1..Len(key) :
        /\ data[from + 2 * i - 1] = hextable[(key[i] \div 16) + 1]
        /\ data[from + 2 * i] = hextable[(key[i] % 16) + 1]

\* C5: the verifier made from a root public key accepts a static public key
\* with a proof exactly when the proof was made with the matching root
\* private key over that same static key: the round trip succeeds, a proof
\* signed by another root key is refused, and so is another static key.
C5_ProofRoundTrip ==
    last.op = "PublicKeyVerifier" =>
        (last.ok <=> (last.rootSeed = proof.rootSeed
                      /\ last.kpSeed = proof.kpSeed))

\* a proof has been made and verified under the matching root public key
C5_Witness ==
    /\ last.op = "PublicKeyVerifier"
    /\ proof.made
    /\ last.rootSeed = proof.rootSeed /\ last.kpSeed = proof.kpSeed
    /\ last.ok

\* C6: GenerateAndSaveNoiseRootKeyPair completes without failure and, when
\* its writes succeed, leaves a private key file of 64 hexadecimal
\* characters and a public key file of 64 hexadecimal characters from which
\* the loaders return the private and public key that were generated.
C6_RootKeyRoundTrip ==
    last.op = "GenerateAndSaveNoiseRootKeyPair" =>
        /\ ~last.panicked
        /\ (last.err = NoErr /\ last.file # last.file2) =>
             /\ Len(fs[last.file].data) = 2 * KeySize
             /\ Len(fs[last.file2].data) = 2 * KeySize
             /\ ~HasNonHex(fs[last.file].data)
             /\ ~HasNonHex(fs[last.file2].data)
             /\ LoadNoiseRootPrivateKey(fs[last.file]).err = NoErr
             /\ LoadNoiseRootPrivateKey(fs[last.file]).key = last.genPrivate
             /\ LoadNoiseRootPublicKey(fs[last.file2]).err = NoErr
             /\ LoadNoiseRootPublicKey(fs[last.file2]).key = last.genPublic

\* C7: a successful GenerateAndSaveNoiseKeyPair leaves a file of exactly 128
\* lowercase hexadecimal characters, the first 64 encoding the private key
\* and the last 64 the public key, and LoadNoiseKeyPair on a file so written
\* returns, without error, the key pair that was generated.
C7_KeyPairRoundTrip ==
    /\ (last.op = "GenerateAndSaveNoiseKeyPair" /\ last.err = NoErr) =>
         LET data == fs[last.file].data
         IN  /\ Len(last.genPrivate) = KeySize
             /\ Len(last.genPublic) = KeySize
             /\ Len(data) = 4 * KeySize
             /\ \A j \in 1..Len(data) : data[j] \in LowerHexDigits
             /\ EncodesAt(data, 0, last.genPrivate)
             /\ EncodesAt(data, 2 * KeySize, last.genPublic)
             /\ LoadNoiseKeyPair(fs[last.file]).err = NoErr
             /\ LoadNoiseKeyPair(fs[last.file]).kp =
                  [nil |-> FALSE, PrivateKey |-> last.genPrivate,
                   PublicKey |-> last.genPublic]
    /\ (last.op = "LoadNoiseKeyPair" /\ saved[last.file].kind = "keyPair") =>
         /\ ~last.panicked
         /\ last.err = NoErr
         /\ last.kp = [nil |-> FALSE,
                       PrivateKey |-> saved[last.file].PrivateKey,
                       PublicKey |-> saved[last.file].PublicKey]

\* a key pair generated into a file has been loaded back from it
C7_Witness ==
    /\ last.op = "LoadNoiseKeyPair"
    /\ saved[last.file].kind = "keyPair"
    /\ last.err = NoErr
    /\ last.kp.PrivateKey = GenerateKeypair(MaxSeed).PrivateKey
    /\ last.kp.PublicKey = GenerateKeypair(MaxSeed).PublicKey

\* C8: the root key loaders return an error and a nil key for every file
\* whose length is not 64, LoadNoiseKeyPair returns an error and a nil key
\* pair for every file whose length is not 128, and a file of the right
\* length that holds a character that is no hexadecimal digit also yields
\* an error and no key.
C8_MalformedFileFails ==
    /\ (last.op \in {"LoadNoiseRootPublicKey", "LoadNoiseRootPrivateKey"}
        /\ fs[last.file].exists
        /\ (Len(fs[last.file].data) # 2 * KeySize
            \/ HasNonHex(fs[last.file].data))) =>
         (~last.panicked /\ last.err # NoErr /\ last.key = << >>)
    /\ (last.op = "LoadNoiseKeyPair"
        /\ fs[last.file].exists
        /\ (Len(fs[last.file].data) # 4 * KeySize
            \/ HasNonHex(fs[last.file].data))) =>
         (~last.panicked /\ last.err # NoErr /\ last.kp = NilKeyPair)

\* a root key file one byte short has been refused, no key returned
C8_Witness ==
    /\ last.op = "LoadNoiseRootPublicKey"
    /\ fs[last.file].exists
    /\ Len(fs[last.file].data) = 2 * KeySize - 2
    /\ ~HasNonHex(fs[last.file].data)
    /\ last.err # NoErr /\ last.key = << >>

\* a key pair file of the right length with a bad character has been refused
C8_WitnessBadCharacter ==
    /\ last.op = "LoadNoiseKeyPair"
    /\ Len(fs[last.file].data) = 4 * KeySize
    /\ HasNonHex(fs[last.file].data)
    /\ last.err # NoErr /\ last.kp = NilKeyPair

----------------------------------------------------------------------------
(* Claims about the record layer *)

BothHoldFloor == maySend["initiator"] /\ maySend["responder"]

\* a write out of turn is refused and puts nothing on the stream; a
\* completed read leaves may_send true, a completed write leaves it false;
\* right after the handshake the initiator holds the floor
HalfDuplexRules ==
    /\ (writes = 0 /\ lastIO = NoIO) =>
         (maySend["initiator"] /\ ~maySend["responder"])
    /\ (lastIO.op = "Write" /\ ~lastIO.maySendBefore) =>
         (lastIO.err = errHalfDuplexViolation /\ lastIO.records = 0)
    /\ (lastIO.op = "Write" /\ lastIO.maySendBefore) =>
         (lastIO.err = NoErr /\ ~maySend[lastIO.peer])
    /\ lastIO.op = "Read" => maySend[lastIO.peer]

LastRecords ==
    LET q == stream[Other(lastIO.peer)]
    IN  SubSeq(q, Len(q) - lastIO.records + 1, Len(q))

\* C11: NoiseMessageLength is 65533 and NoiseMaxPlaintextSize is 65517
\* (65533 - 16); a completed write of n > 0 plaintext bytes puts exactly
\* ceil(n / 65517) records on the stream, which carry the n bytes in order,
\* each with a body (ciphertext and tag) of at most 65533 bytes; a write of
\* 65517 bytes makes one record of body length 65533, a write of 65518
\* bytes makes two records.
C11_RecordSizeLimits ==
    /\ NoiseMessageLength = 65533
    /\ NoiseMaxPlaintextSize = 65517
    /\ NoiseMaxPlaintextSize = 65533 - 16
    /\ (lastIO.op = "Write" /\ lastIO.err = NoErr /\ lastIO.n > 0) =>
          /\ lastIO.records = (lastIO.n + 65517 - 1) \div 65517
          /\ Len(stream[Other(lastIO.peer)]) >= lastIO.records
          /\ LastRecords = Chunks(lastIO.n)
          /\ \A i \in 1..Len(LastRecords) :
                /\ LastRecords[i] > 0
                /\ LastRecords[i] + NoiseTagLength <= 65533
                /\ i < Len(LastRecords) => LastRecords[i] = 65517
          /\ lastIO.n = 65517 =>
                (lastIO.records = 1 /\ LastRecords[1] + NoiseTagLength = 65533)
          /\ lastIO.n = 65518 => LastRecords = <<65517, 1>>
          /\ lastIO.n = 70000 => LastRecords = <<65517, 4483>>

\* a write of 65518 bytes has put two records on the stream
C11_Witness ==
    /\ lastIO.op = "Write" /\ lastIO.err = NoErr
    /\ lastIO.n = 65518 /\ lastIO.records = 2
    /\ LastRecords = <<65517, 1>>

----------------------------------------------------------------------------
(* Claims about the timer and the goroutine of DialWithDialer *)

\* DialWithDialer has gone past the statement that arms the timer
PastArm == op = "Dial" /\ pc \in {"dial", "dialing", "client", "recv",
                                   "after", "returned"}

\* the smaller of dialer.Timeout and the time remaining until
\* dialer.Deadline, or the single one that is set
SmallerOfTimeoutAndDeadline ==
    IF dialer.Deadline.IsZero THEN dialer.Timeout
    ELSE IF dialer.Timeout = 0 THEN dialer.Deadline.Until
    ELSE IF dialer.Deadline.Until < dialer.Timeout THEN dialer.Deadline.Until
    ELSE dialer.Timeout

\* C12: whenever dialer.Timeout is non-zero or dialer.Deadline is non-zero
\* (a deadline that is exactly now or already past included),
\* DialWithDialer arms a timer whose duration is the smaller of
\* dialer.Timeout and the time remaining until dialer.Deadline, and the
\* handshake runs under it: in the goroutine, the caller waiting on
\* errChannel, never synchronously.
C12_TimerArmedForAnyDeadline ==
    (PastArm /\ (dialer.Timeout # 0 \/ ~dialer.Deadline.IsZero)) =>
        /\ timer # "none"
        /\ timeout = SmallerOfTimeoutAndDeadline
        /\ (pc \in {"after", "returned"} /\ rawConn # "none") =>
              goroutine # "none"

----------------------------------------------------------------------------
(* Claims about the connections returned by DialWithDialer and Accept *)

\* C13: a Conn that DialWithDialer returns without error is a client-side
\* Conn on the dialed raw connection whose conn.Handshake() has returned
\* nil; a Conn that listener.Accept returns is a server-side Conn with the
\* listener's config on which conn.Handshake() has not been called; an
\* error of the underlying Accept is returned with a nil Conn.
C13_HandshakeTimingByRole ==
    /\ (op = "Dial" /\ pc = "returned" /\ ret.err = NoErr) =>
          /\ ret.val = "conn"
          /\ conn = Client("rawConn", config)
          /\ handshake = "ok" /\ hsErr = NoErr
          /\ timeout # 0 => goroutine \in {"returned", "exited"}
    /\ (op = "Listen" /\ acceptRet.val # NIL) =>
          /\ acceptRet.err = NoErr
          /\ conn = Server("c", config)
          /\ ~conn.isClient
          /\ handshake = "none"
    /\ (op = "Listen" /\ acceptRet.err # NoErr) => acceptRet.val = NIL

\* Accept has returned a connection of a listener made with a config
C13_Witness ==
    /\ op = "Listen" /\ ret.val = "listener"
    /\ acceptRet = [val |-> "conn", err |-> NoErr]
    /\ conn = Server("c", config) /\ config # NilConfig
    /\ handshake = "none"

\* DialWithDialer with a timeout has returned a connection
C13_WitnessDial ==
    /\ op = "Dial" /\ pc = "returned" /\ timeout # 0
    /\ ret = [val |-> "conn", err |-> NoErr]
    /\ conn.isClient /\ handshake = "ok"

----------------------------------------------------------------------------
(* Claims about the tasks started by the library *)

\* C14 as stated: no operation, DialWithDialer with a non-zero timeout
\* included, starts a task that runs outside the caller's thread (a timer
\* callback, a goroutine) or leaves one running when it has returned.
C14_NoBackgroundTasks ==
    /\ timer = "none"
    /\ goroutine = "none"
    /\ errChannel = << >>

\* C14 amended: Listen, Accept and DialWithDialer with a timeout of 0 start
\* no timer and no goroutine and queue nothing; a goroutine exists only
\* where DialWithDialer has armed its timer and dialer.Dial has returned a
\* raw connection.
C14_TasksOnlyWithTimeout ==
    /\ (op = "Listen" \/ timeout = 0) => C14_NoBackgroundTasks
    /\ timer # "none" => (op = "Dial" /\ timeout # 0 /\ PastArm)
    /\ goroutine # "none" => (timer # "none" /\ rawConn # "none")

\* DialWithDialer without timeout has run the handshake itself and returned
C14_Witness ==
    /\ op = "Dial" /\ pc = "returned" /\ timeout = 0
    /\ ret.val = "conn" /\ handshake = "ok"
    /\ goroutine = "none" /\ timer = "none"

\* DialWithDialer has returned the timeout error while the timer has fired
\* and the handshake goroutine is still running
C14_WitnessTasksLeft ==
    /\ op = "Dial" /\ pc = "returned" /\ ret.err = timeoutError
    /\ goroutine = "running" /\ timer = "fired"

\* the number of values sent on errChannel so far (the timer callback and
\* the goroutine send one value each) and received from it so far (the
\* caller receives once, after starting the goroutine)
Sent == (IF timer = "fired" THEN 1 ELSE 0)
        + (IF goroutine = "exited" THEN 1 ELSE 0)

Received == IF goroutine # "none" /\ pc \in {"after", "returned"}
            THEN 1 ELSE 0

\* C15: in DialWithDialer with a non-zero timeout, whenever the timer
\* callback or the goroutine is about to send on errChannel the channel has
\* room, so neither send ever blocks; at most two values are ever sent,
\* and the channel never holds more than its capacity of 2.
C15_SendsNeverBlock ==
    (op = "Dial" /\ timeout # 0) =>
        /\ (timer = "armed" \/ goroutine = "returned") =>
              Len(errChannel) < errChannelCap
        /\ Sent <= 2
        /\ Len(errChannel) = Sent - Received
        /\ Len(errChannel) <= 2

\* the timer callback and the goroutine have both sent before the caller
\* has received anything
C15_Witness ==
    /\ op = "Dial" /\ timeout # 0 /\ pc = "recv"
    /\ timer = "fired" /\ goroutine = "exited"
    /\ Len(errChannel) = 2

\* dialer.Dial has failed after the timer callback has sent: the function
\* has returned without reading the channel
C15_WitnessDialFailed ==
    /\ op = "Dial" /\ timeout # 0 /\ pc = "returned" /\ rawConn = "none"
    /\ timer = "fired" /\ errChannel = <<timeoutError>>

----------------------------------------------------------------------------
(* Claims about what DialWithDialer returns *)

\* C16: DialWithDialer returns either a Conn and a nil error or a nil Conn
\* and an error, never both nil or both non-nil; when it returns an error
\* after dialer.Dial succeeded the raw connection has been closed; when it
\* returns a Conn the raw connection is open, and stays so when the timer
\* fires afterwards.
C16_ExclusiveOutcome ==
    (op = "Dial" /\ pc = "returned") =>
        /\ (ret.val = NIL) # (ret.err = NoErr)
        /\ ret.val # NIL => (ret.val = "conn" /\ ~conn.nil)
        /\ (ret.err # NoErr /\ rawConn # "none") => rawConn = "closed"
        /\ ret.err = NoErr => rawConn = "open"
        /\ netCalled

\* DialWithDialer has returned a Conn and the timer has fired afterwards
C16_Witness ==
    /\ op = "Dial" /\ pc = "returned" /\ timeout # 0
    /\ ret = [val |-> "conn", err |-> NoErr]
    /\ timer = "fired" /\ ~timedOutEarly /\ errChannel = <<timeoutError>>
    /\ rawConn = "open"

\* DialWithDialer has returned the error of a failed handshake
C16_WitnessError ==
    /\ op = "Dial" /\ pc = "returned"
    /\ ret.val = NIL /\ ret.err \in HandshakeErrors
    /\ rawConn = "closed"

----------------------------------------------------------------------------
(* Claims about the termination of the handshake goroutine *)

\* DialWithDialer has returned a timeout error with the goroutine started
ReturnedTimeout ==
    /\ op = "Dial" /\ pc = "returned" /\ Timeout(ret.err)
    /\ goroutine # "none"

\* C17: after DialWithDialer has returned a timeout error, the handshake
\* goroutine it started eventually exits, its result sent on errChannel;
\* a conn.Handshake() that was still running at that point fails.
C17_GoroutineTerminates ==
    /\ ReturnedTimeout ~> (goroutine = "exited" /\ rawConn = "closed")
    /\ (ReturnedTimeout /\ goroutine = "running") ~>
          (goroutine = "exited" /\ hsErr \in HandshakeErrors
             /\ errChannel = <<hsErr>>)

\* the timer has fired during the handshake, DialWithDialer has returned
\* the timeout error, and the goroutine has sent the handshake's error and
\* exited
C17_Witness ==
    /\ ReturnedTimeout /\ ret.err = timeoutError /\ timedOutEarly
    /\ rawConn = "closed"
    /\ goroutine = "exited" /\ hsErr \in HandshakeErrors
    /\ errChannel = <<hsErr>>

====
